---------------------------- MODULE Spec2Model ----------------------------
(***************************************************************************)
(* Model of 620158703_chessAI.py: evaluate_board, minimax_alpha_beta and   *)
(* get_best_move, run step by step over a python-chess board, and the game *)
(* loop of main that calls get_best_move between the player's events.      *)
(*                                                                         *)
(* The board (python-chess, not part of the repository) is modelled by     *)
(* what the program asks of it: the side to move, the legal moves, whether *)
(* the position is a checkmate, a stalemate or a draw, the piece counts,   *)
(* and push/pop on a stack of positions.                                   *)
(***************************************************************************)
EXTENDS Integers, Sequences, FiniteSets, TLC

VARIABLES
    tree,        \* <<>>: the positions are supplied move by move; <<t>>: the game tree t is fixed
    boards,      \* the board: the stack of positions, the last one is the current position
    move_stack,  \* board.move_stack: the moves pushed and not yet popped
    frames,      \* the Python call stack, innermost call first
    ret,         \* the value returned by the call that returned last
    done,        \* the outermost call has returned
    scanned,     \* get_best_move: the root moves scanned so far, with the score of each
    call,        \* the outermost call: its function and arguments
    ev,          \* the board or evaluator operation performed by the last step
    game         \* main: where its loop stands and its locals, NoGame outside main

vars == <<tree, boards, move_stack, frames, ret, done, scanned, call, ev, game>>

---------------------------------------------------------------------------
(* Bounds of the model *)

\* the most legal moves a position offers
MaxBranch == 2
\* the largest depth passed to get_best_move or minimax_alpha_beta
MaxDepth == 2
\* the most pieces, kings apart, on a board handed to evaluate_board alone
MaxPieces == 2

\* the most moves on the board of a game played in main's loop
MaxGame == 4

\* every game ends at most this many plies below the root position
MaxPly == MaxDepth
\* the height of the fixed game trees
TreeHeight == MaxPly

---------------------------------------------------------------------------
(* python-chess values *)

WHITE == TRUE
BLACK == FALSE

PieceTypes == {"PAWN", "KNIGHT", "BISHOP", "ROOK", "QUEEN", "KING"}

\* float('inf') and float('-inf'): above and below every material sum
Inf == 1000
NegInf == -1000

\* Python's None, for best_move (the legal moves of a position are 1..nmoves)
None == 0

max(a, b) == IF a >= b THEN a ELSE b
min(a, b) == IF a <= b THEN a ELSE b

\* a side with its king alone
KingOnly == [p \in PieceTypes |-> IF p = "KING" THEN 1 ELSE 0]

---------------------------------------------------------------------------
(* The board's answers *)

Turn(b) == b.turn
is_checkmate(b) == b.ended = "checkmate"
is_stalemate(b) == b.ended = "stalemate"
is_insufficient_material(b) == b.insufficient
\* checkmate, stalemate, insufficient material, seventy-five moves, fivefold repetition
is_game_over(b) ==
    is_checkmate(b) \/ is_stalemate(b) \/ is_insufficient_material(b) \/ b.seventyfive
legal_moves(b) == 1 .. b.nmoves
\* len(board.pieces(piece_type, color))
pieces(b, piece_type, color) ==
    IF color = WHITE THEN b.white[piece_type] ELSE b.black[piece_type]

---------------------------------------------------------------------------
(* evaluate_board *)

piece_values ==
    [p \in PieceTypes |->
        CASE p = "PAWN" -> 1
          [] p = "KNIGHT" -> 3
          [] p = "BISHOP" -> 3
          [] p = "ROOK" -> 5
          [] p = "QUEEN" -> 9
          [] p = "KING" -> 0]

RECURSIVE MaterialSumWhiteOnly(_, _)
\* the loop of lines 72-75 without line 75: Black's pieces are not subtracted
MaterialSumWhiteOnly(b, S) ==
    IF S = {} THEN 0
    ELSE LET p == CHOOSE x \in S : TRUE
         IN  pieces(b, p, WHITE) * piece_values[p] + MaterialSumWhiteOnly(b, S \ {p})

RECURSIVE MaterialSum(_, _)
\* the loop of lines 72-75 over the piece types in S
MaterialSum(b, S) ==
    IF S = {} THEN 0
    ELSE LET p == CHOOSE x \in S : TRUE
         IN  pieces(b, p, WHITE) * piece_values[p]
               - pieces(b, p, BLACK) * piece_values[p]
               + MaterialSum(b, S \ {p})

\* evaluate_board with the two checkmate scores exchanged
evaluate_board_mover_wins(b) ==
    IF is_checkmate(b)
    THEN (IF Turn(b) = BLACK THEN NegInf ELSE Inf)
    ELSE IF is_stalemate(b) \/ is_insufficient_material(b)
    THEN 0
    ELSE MaterialSum(b, DOMAIN piece_values)

evaluate_board(b) ==
    IF is_checkmate(b)
    THEN (IF Turn(b) = BLACK THEN Inf ELSE NegInf)
    ELSE IF is_stalemate(b) \/ is_insufficient_material(b)
    THEN 0
    ELSE MaterialSum(b, DOMAIN piece_values)

---------------------------------------------------------------------------
(* The positions of a search *)

Bare == <<KingOnly, KingOnly>>
Level == <<[KingOnly EXCEPT !["PAWN"] = 1], [KingOnly EXCEPT !["PAWN"] = 1]>>
WhiteUp == <<[KingOnly EXCEPT !["PAWN"] = 1], KingOnly>>
BlackUp == <<KingOnly, [KingOnly EXCEPT !["KNIGHT"] = 1]>>
\* the material of the positions a search meets: level, White a pawn up, Black a knight up
SearchPieces == {Level, WhiteUp, BlackUp}

Position(t, c, n, i, s, wb) ==
    [turn |-> t, ended |-> c, nmoves |-> n, insufficient |-> i, seventyfive |-> s,
     white |-> wb[1], black |-> wb[2]]

\* the positions with side t to move, as far as the search can tell them apart: a game in
\* progress with 1..MaxBranch legal moves, a checkmate, a stalemate, a draw by the
\* seventy-five-move rule (or fivefold repetition), a draw by insufficient material
Positions(t) ==
    {Position(t, "no", n, FALSE, FALSE, wb) : n \in 1 .. MaxBranch, wb \in SearchPieces}
    \cup {Position(t, "checkmate", 0, FALSE, FALSE, WhiteUp)}
    \cup {Position(t, "stalemate", 0, FALSE, FALSE, BlackUp)}
    \cup {Position(t, "no", 1, FALSE, TRUE, wb) : wb \in SearchPieces}
    \cup {Position(t, "no", 1, TRUE, FALSE, Bare)}

\* the positions of a game played in main's loop, with side t to move: a game in progress
\* with 1..MaxBranch legal moves, a checkmate, a stalemate, a draw by the seventy-five-move
\* rule (or fivefold repetition)
GamePositions(t) ==
    {Position(t, "no", n, FALSE, FALSE, Level) : n \in 1 .. MaxBranch}
    \cup {Position(t, "checkmate", 0, FALSE, FALSE, WhiteUp)}
    \cup {Position(t, "stalemate", 0, FALSE, FALSE, BlackUp)}
    \cup {Position(t, "no", 1, FALSE, TRUE, WhiteUp)}

\* no game that starts from chess.Board() is over before its fourth ply (fool's mate)
FirstMatePly == 4

\* main's locals while no game is played: a search called on its own
NoGame ==
    [pc |-> "none", running |-> FALSE, game_over |-> FALSE, ai_thinking |-> FALSE,
     sq_selected |-> FALSE]

Cur == boards[Len(boards)]
Ply == Len(move_stack)

RECURSIVE Node(_, _)
\* the node of game tree t reached by the moves of path
Node(t, path) == IF path = <<>> THEN t ELSE Node(t.kids[Head(path)], Tail(path))

\* the positions board.push(m) can lead to from the current position: the child of the fixed
\* tree, or a position of the game played in main's loop, or any position with the other
\* side to move (a finished game at ply MaxPly)
ChildBoards(m) ==
    IF tree # <<>>
    THEN {Node(tree[1], Append(move_stack, m)).board}
    ELSE IF game # NoGame
    THEN {b \in GamePositions(~Turn(Cur)) : Ply + 1 < FirstMatePly => ~is_game_over(b)}
    ELSE {b \in Positions(~Turn(Cur)) : Ply + 1 = MaxPly => is_game_over(b)}

---------------------------------------------------------------------------
(* The call stack *)

Frame(fn, depth, alpha, beta, is_maximizing) ==
    [fn |-> fn, depth |-> depth, alpha |-> alpha, beta |-> beta,
     is_maximizing |-> is_maximizing,
     max_eval |-> 0,          \* max_eval, or min_eval in the minimizing branch
     best_move |-> None,
     moves |-> <<>>,          \* the moves the for loop runs over
     idx |-> 0,               \* how many of them the loop has taken
     pc |-> "start",
     entry_alpha |-> alpha, entry_beta |-> beta,   \* the window the call was entered with
     entry_stack |-> move_stack', entry_board |-> boards'[Len(boards')]]

Top == Head(frames)

\* what a step did: op at depth "depth" (of the frame acting), with the board ply moves
\* below the root, leaving "left" moves of the frame's loop untaken
Event(op, depth, ply, left) == [op |-> op, depth |-> depth, ply |-> ply, left |-> left]

\* a call returns v to its caller
Return(v, op) ==
    /\ frames' = Tail(frames)
    /\ ret' = v
    /\ done' = (Tail(frames) = <<>>)
    /\ ev' = Event(op, Top.depth, Ply, Len(Top.moves) - Top.idx)
    /\ UNCHANGED <<tree, game, boards, move_stack, scanned, call>>

\* the caller pushes move m and calls callee
PushAndCall(m, child, caller, callee) ==
    /\ boards' = Append(boards, child)
    /\ move_stack' = Append(move_stack, m)
    /\ frames' = <<callee, caller>> \o Tail(frames)
    /\ ev' = Event("push", Top.depth, Ply + 1, Len(Top.moves) - Top.idx - 1)
    /\ UNCHANGED <<tree, game, ret, done, scanned, call>>

\* board.pop()
Pop ==
    /\ boards' = SubSeq(boards, 1, Len(boards) - 1)
    /\ move_stack' = SubSeq(move_stack, 1, Len(move_stack) - 1)

---------------------------------------------------------------------------
(* minimax_alpha_beta *)

\* line 86 without its second test
AtLeafDepthOnly == Top.depth = 0

\* line 86: the test that ends the recursion
AtLeaf == Top.depth = 0 \/ is_game_over(Cur)

\* lines 86-87: depth 0 or a finished game
MabLeaf ==
    /\ frames # <<>> /\ Top.fn = "mab" /\ Top.pc = "start"
    /\ AtLeaf
    /\ Return(evaluate_board(Cur), "evaluate")

\* lines 89-91 and 100-102: the branch, its initial value and its loop
MabEnter ==
    /\ frames # <<>> /\ Top.fn = "mab" /\ Top.pc = "start"
    /\ ~AtLeaf
    /\ frames' = <<[Top EXCEPT
                      !.max_eval = IF Top.is_maximizing THEN NegInf ELSE Inf,
                      !.moves = [i \in 1 .. Cur.nmoves |-> i],
                      !.pc = "loop"]>> \o Tail(frames)
    /\ ev' = Event("enter", Top.depth, Ply, Cur.nmoves)
    /\ UNCHANGED <<tree, game, boards, move_stack, ret, done, scanned, call>>

\* lines 92-93 and 103-104: push the next move and search it with the other role
MabPush ==
    /\ frames # <<>> /\ Top.fn = "mab" /\ Top.pc = "loop"
    /\ Top.idx < Len(Top.moves)
    /\ LET move == Top.moves[Top.idx + 1]
       IN  \E child \in ChildBoards(move) :
             PushAndCall(move, child,
                         [Top EXCEPT !.idx = Top.idx + 1, !.pc = "called"],
                         Frame("mab", Top.depth - 1, Top.alpha, Top.beta,
                               ~Top.is_maximizing))

\* MabFold with the cut-off test of lines 97 and 108 moved before the pop of lines 94 and 105
MabFoldBreakBeforePop ==
    /\ frames # <<>> /\ Top.fn = "mab" /\ Top.pc = "called"
    /\ LET eval == ret
           best == IF Top.is_maximizing THEN max(Top.max_eval, eval)
                                        ELSE min(Top.max_eval, eval)
           alpha == IF Top.is_maximizing THEN max(Top.alpha, eval) ELSE Top.alpha
           beta == IF Top.is_maximizing THEN Top.beta ELSE min(Top.beta, eval)
       IN  /\ frames' = <<[Top EXCEPT
                             !.max_eval = best, !.alpha = alpha, !.beta = beta,
                             !.pc = IF beta <= alpha THEN "break" ELSE "loop"]>>
                        \o Tail(frames)
           /\ IF beta <= alpha THEN UNCHANGED <<boards, move_stack>> ELSE Pop
    /\ ev' = Event("pop", Top.depth, Ply - 1, Len(Top.moves) - Top.idx)
    /\ UNCHANGED <<tree, game, ret, done, scanned, call>>

\* MabFold with the max and min of lines 96 and 107 dropped: alpha = eval, beta = eval
MabFoldWindowSetToEval ==
    /\ frames # <<>> /\ Top.fn = "mab" /\ Top.pc = "called"
    /\ Pop
    /\ LET eval == ret
           best == IF Top.is_maximizing THEN max(Top.max_eval, eval)
                                        ELSE min(Top.max_eval, eval)
           alpha == IF Top.is_maximizing THEN eval ELSE Top.alpha
           beta == IF Top.is_maximizing THEN Top.beta ELSE eval
       IN  frames' = <<[Top EXCEPT
                          !.max_eval = best, !.alpha = alpha, !.beta = beta,
                          !.pc = IF beta <= alpha THEN "break" ELSE "loop"]>>
                     \o Tail(frames)
    /\ ev' = Event("pop", Top.depth, Ply - 1, Len(Top.moves) - Top.idx)
    /\ UNCHANGED <<tree, game, ret, done, scanned, call>>

\* MabFold with the tests of lines 97 and 108 made strict: beta < alpha
MabFoldStrictCutoff ==
    /\ frames # <<>> /\ Top.fn = "mab" /\ Top.pc = "called"
    /\ Pop
    /\ LET eval == ret
           best == IF Top.is_maximizing THEN max(Top.max_eval, eval)
                                        ELSE min(Top.max_eval, eval)
           alpha == IF Top.is_maximizing THEN max(Top.alpha, eval) ELSE Top.alpha
           beta == IF Top.is_maximizing THEN Top.beta ELSE min(Top.beta, eval)
       IN  frames' = <<[Top EXCEPT
                          !.max_eval = best, !.alpha = alpha, !.beta = beta,
                          !.pc = IF beta < alpha THEN "break" ELSE "loop"]>>
                     \o Tail(frames)
    /\ ev' = Event("pop", Top.depth, Ply - 1, Len(Top.moves) - Top.idx)
    /\ UNCHANGED <<tree, game, ret, done, scanned, call>>

\* MabFold with line 96 copied from line 107: the maximizing branch lowers beta
MabFoldBetaInBothBranches ==
    /\ frames # <<>> /\ Top.fn = "mab" /\ Top.pc = "called"
    /\ Pop
    /\ LET eval == ret
           best == IF Top.is_maximizing THEN max(Top.max_eval, eval)
                                        ELSE min(Top.max_eval, eval)
           alpha == IF Top.is_maximizing THEN max(Top.alpha, eval) ELSE Top.alpha
           beta == min(Top.beta, eval)
       IN  frames' = <<[Top EXCEPT
                          !.max_eval = best, !.alpha = alpha, !.beta = beta,
                          !.pc = IF beta <= alpha THEN "break" ELSE "loop"]>>
                     \o Tail(frames)
    /\ ev' = Event("pop", Top.depth, Ply - 1, Len(Top.moves) - Top.idx)
    /\ UNCHANGED <<tree, game, ret, done, scanned, call>>

\* lines 94-98 and 105-109: pop, fold the child's score in, test for the cut-off
MabFold ==
    /\ frames # <<>> /\ Top.fn = "mab" /\ Top.pc = "called"
    /\ Pop
    /\ LET eval == ret
           best == IF Top.is_maximizing THEN max(Top.max_eval, eval)
                                        ELSE min(Top.max_eval, eval)
           alpha == IF Top.is_maximizing THEN max(Top.alpha, eval) ELSE Top.alpha
           beta == IF Top.is_maximizing THEN Top.beta ELSE min(Top.beta, eval)
       IN  frames' = <<[Top EXCEPT
                          !.max_eval = best, !.alpha = alpha, !.beta = beta,
                          !.pc = IF beta <= alpha THEN "break" ELSE "loop"]>>
                     \o Tail(frames)
    /\ ev' = Event("pop", Top.depth, Ply - 1, Len(Top.moves) - Top.idx)
    /\ UNCHANGED <<tree, game, ret, done, scanned, call>>

\* lines 99 and 110: the loop is exhausted or was broken out of
MabReturn ==
    /\ frames # <<>> /\ Top.fn = "mab"
    /\ \/ Top.pc = "loop" /\ Top.idx = Len(Top.moves)
       \/ Top.pc = "break"
    /\ Return(Top.max_eval, IF Top.pc = "break" THEN "cutoff" ELSE "return")

NextMab == MabLeaf \/ MabEnter \/ MabPush \/ MabFold \/ MabReturn

---------------------------------------------------------------------------
(* get_best_move *)

\* random.shuffle: any order of the legal moves
Shuffles(n) == {p \in [1 .. n -> 1 .. n] : \A i, j \in 1 .. n : p[i] = p[j] => i = j}

\* lines 116-121
GbmStart ==
    /\ frames # <<>> /\ Top.fn = "gbm" /\ Top.pc = "start"
    /\ \E legal_moves_list \in Shuffles(Cur.nmoves) :
         frames' = <<[Top EXCEPT
                        !.best_move = None,
                        !.max_eval = IF Turn(Cur) = WHITE THEN NegInf ELSE Inf,
                        !.moves = legal_moves_list,
                        !.pc = "loop"]>> \o Tail(frames)
    /\ scanned' = <<>>
    /\ ev' = Event("enter", Top.depth, Ply, Cur.nmoves)
    /\ UNCHANGED <<tree, game, boards, move_stack, ret, done, call>>

\* lines 123-127: push the move; the role passed is "not board.turn", read after the push
GbmPush ==
    /\ frames # <<>> /\ Top.fn = "gbm" /\ Top.pc = "loop"
    /\ Top.idx < Len(Top.moves)
    /\ LET move == Top.moves[Top.idx + 1]
       IN  \E child \in ChildBoards(move) :
             PushAndCall(move, child,
                         [Top EXCEPT !.idx = Top.idx + 1, !.pc = "called"],
                         Frame("mab", Top.depth - 1, NegInf, Inf, ~Turn(child)))

\* lines 130-137 without the test of the colour: the comparison of the minimizing side only
BetterForBlackOnly(turn, eval, max_eval) == eval < max_eval

\* lines 131 and 135 with >= and <=: a move that ties replaces the tracked one
BetterOrEqual(turn, eval, max_eval) ==
    IF turn = WHITE THEN eval >= max_eval ELSE eval <= max_eval

\* lines 130-137: whether the move just scanned replaces the tracked one
Better(turn, eval, max_eval) ==
    IF turn = WHITE THEN eval > max_eval ELSE eval < max_eval

\* lines 128-137
GbmFold ==
    /\ frames # <<>> /\ Top.fn = "gbm" /\ Top.pc = "called"
    /\ Pop
    /\ LET eval == ret
           move == Top.moves[Top.idx]
           better == Better(Turn(boards'[Len(boards')]), eval, Top.max_eval)
       IN  /\ frames' = <<[Top EXCEPT
                             !.max_eval = IF better THEN eval ELSE Top.max_eval,
                             !.best_move = IF better THEN move ELSE Top.best_move,
                             !.pc = "loop"]>> \o Tail(frames)
           /\ scanned' = Append(scanned,
                                [move |-> move, eval |-> eval,
                                 checkmate |-> is_checkmate(Cur), took |-> better])
    /\ ev' = Event("pop", Top.depth, Ply - 1, Len(Top.moves) - Top.idx)
    /\ UNCHANGED <<tree, game, ret, done, call>>

\* line 138
GbmReturn ==
    /\ frames # <<>> /\ Top.fn = "gbm" /\ Top.pc = "loop"
    /\ Top.idx = Len(Top.moves)
    /\ Return(Top.best_move, "return")

NextGbm == GbmStart \/ GbmPush \/ GbmFold \/ GbmReturn

---------------------------------------------------------------------------
(* The calls checked *)

\* the frame of the outermost call, made on the root position b
Call(fn, depth, alpha, beta, is_maximizing, b) ==
    [fn |-> fn, depth |-> depth, alpha |-> alpha, beta |-> beta,
     is_maximizing |-> is_maximizing, max_eval |-> 0, best_move |-> None,
     moves |-> <<>>, idx |-> 0, pc |-> "start",
     entry_alpha |-> alpha, entry_beta |-> beta,
     entry_stack |-> <<>>, entry_board |-> b]

\* the bounds of the window of an outermost minimax_alpha_beta call
Windows == {NegInf, 0, Inf}

InitOn(b, c) ==
    /\ boards = <<b>>
    /\ move_stack = <<>>
    /\ frames = <<c>>
    /\ ret = 0
    /\ done = FALSE
    /\ scanned = <<>>
    /\ call = c
    /\ ev = Event("call", c.depth, 0, 0)
    /\ game = NoGame

\* get_best_move(board, depth), or minimax_alpha_beta(board, depth, alpha, beta, role), on any
\* position; the positions below it are supplied as the search pushes its moves
Init ==
    /\ tree = <<>>
    /\ \E t \in BOOLEAN : \E b \in Positions(t) :
         \/ \E depth \in 0 .. MaxDepth :
              InitOn(b, Call("gbm", depth, NegInf, Inf, FALSE, b))
         \/ \E depth \in 0 .. MaxDepth, alpha \in Windows, beta \in Windows,
               is_maximizing \in BOOLEAN :
              /\ alpha <= beta
              /\ InitOn(b, Call("mab", depth, alpha, beta, is_maximizing, b))

Next == NextMab \/ NextGbm

Spec == Init /\ [][Next]_vars

---------------------------------------------------------------------------
(* minimax_alpha_beta on a board whose answers disagree *)

\* positions with no legal move that the board reports neither as a checkmate nor as a
\* stalemate, so not as a finished game: python-chess's own Board never answers so; only a
\* board object that answers is_game_over() and legal_moves independently can
Unreported(t) == {Position(t, "no", 0, FALSE, FALSE, wb) : wb \in SearchPieces}

InitDefensive ==
    /\ tree = <<>>
    /\ \E t \in BOOLEAN : \E b \in Positions(t) \cup Unreported(t) :
         \E depth \in 0 .. MaxDepth, alpha \in Windows, beta \in Windows,
            is_maximizing \in BOOLEAN :
              /\ alpha <= beta
              /\ InitOn(b, Call("mab", depth, alpha, beta, is_maximizing, b))

SpecDefensive == InitDefensive /\ [][NextMab]_vars

---------------------------------------------------------------------------
(* minimax_alpha_beta on a fixed game tree *)

\* the finished games with side t to move: the leaves of a tree (the legal moves of a drawn
\* position are never searched and are left out of the tree)
TreeLeaves(t) ==
    {Position(t, "checkmate", 0, FALSE, FALSE, WhiteUp),
     Position(t, "stalemate", 0, FALSE, FALSE, BlackUp),
     Position(t, "no", 1, FALSE, TRUE, WhiteUp), Position(t, "no", 1, FALSE, TRUE, BlackUp)}

RECURSIVE Trees(_, _, _)
\* the game trees of height at most h with side t to move at the root and the root's
\* material among ms: every leaf is a finished game, every other node has 1..MaxBranch moves
Trees(h, t, ms) ==
    {[board |-> b, kids |-> <<>>] : b \in TreeLeaves(t)}
    \cup (IF h = 0 THEN {}
          ELSE LET sub == Trees(h - 1, ~t, {WhiteUp, BlackUp})
               IN  UNION {{[board |-> Position(t, "no", n, FALSE, FALSE, wb), kids |-> ks] :
                              ks \in [1 .. n -> sub], wb \in ms} : n \in 1 .. MaxBranch})

InitTree ==
    \E t \in BOOLEAN : \E g \in Trees(TreeHeight, t, {Level}) :
        /\ tree = <<g>>
        /\ \E depth \in 0 .. MaxDepth, is_maximizing \in BOOLEAN :
             InitOn(g.board, Call("mab", depth, NegInf, Inf, is_maximizing, g.board))

SpecTree == InitTree /\ [][NextMab]_vars

---------------------------------------------------------------------------
(* evaluate_board on any board *)

RECURSIVE PieceSets(_)
\* the pairs <<white, black>> of piece counts: a king each and at most k other pieces
PieceSets(k) ==
    IF k = 0 THEN {Bare}
    ELSE LET less == PieceSets(k - 1)
         IN  less
             \cup {<<[wb[1] EXCEPT ![p] = @ + 1], wb[2]>> :
                      wb \in less, p \in PieceTypes \ {"KING"}}
             \cup {<<wb[1], [wb[2] EXCEPT ![p] = @ + 1]>> :
                      wb \in less, p \in PieceTypes \ {"KING"}}

\* what the rules engine says of insufficient material: never with a pawn, rook or queen on
\* the board, always with the two kings alone
InsufficientOk(wb, i) ==
    /\ (\E p \in {"PAWN", "ROOK", "QUEEN"} : wb[1][p] + wb[2][p] > 0) => ~i
    /\ wb = Bare => i

\* what the rules engine says of the end of the game: a checkmate or a stalemate exactly when
\* there is no legal move, and no checkmate with insufficient material
EndedOk(c, n, i) ==
    /\ c # "no" <=> n = 0
    /\ c = "checkmate" => ~i

\* the boards evaluate_board is checked on
EvalBoards ==
    {b \in {Position(t, c, n, i, s, wb) :
              t \in BOOLEAN, c \in {"no", "checkmate", "stalemate"}, n \in 0 .. 1,
              i \in BOOLEAN, s \in BOOLEAN, wb \in PieceSets(MaxPieces)} :
        /\ InsufficientOk(<<b.white, b.black>>, b.insufficient)
        /\ EndedOk(b.ended, b.nmoves, b.insufficient)}

InitEval ==
    /\ tree = <<>>
    /\ \E b \in EvalBoards :
         InitOn(b, Call("evaluate_board", 0, NegInf, Inf, FALSE, b))

\* evaluate_board(board), called alone
Evaluate ==
    /\ frames # <<>> /\ Top.fn = "evaluate_board"
    /\ Return(evaluate_board(Cur), "evaluate")

SpecEval == InitEval /\ [][Evaluate]_vars

---------------------------------------------------------------------------
(* main: the game loop *)

\* lines 230 and 233
AI_DEPTH == 3
AI_COLOR == WHITE

\* chess.Board(): the starting position, White to move
StartBoard == Position(WHITE, "no", MaxBranch, FALSE, FALSE, Level)

\* board.fullmove_number of a board that started from chess.Board() and holds the moves ms:
\* 1 at the start, one more after each move of Black
fullmove_number(ms) == 1 + (Len(ms) \div 2)

\* s without its last n elements
PopN(s, n) == SubSeq(s, 1, Len(s) - n)

\* lines 218-238: the state at the first test of "while running"; game.pc is "events" in the
\* for loop of line 245, "ai" at the test of line 356, "search" inside get_best_move,
\* "exited" after the loop, "crashed" after an exception
InitLoop ==
    /\ tree = <<>>
    /\ boards = <<StartBoard>>
    /\ move_stack = <<>>
    /\ frames = <<>>
    /\ ret = 0
    /\ done = FALSE
    /\ scanned = <<>>
    /\ call = Call("gbm", AI_DEPTH, NegInf, Inf, FALSE, StartBoard)
    /\ ev = Event("start", 0, 0, 0)
    /\ game = [pc |-> "events", running |-> TRUE, game_over |-> FALSE,
               ai_thinking |-> (Turn(StartBoard) = AI_COLOR), sq_selected |-> FALSE]

\* lines 246-247: pygame.QUIT
Quit ==
    /\ game.pc = "events"
    /\ game' = [game EXCEPT !.running = FALSE]
    /\ ev' = Event("quit", 0, Ply, 0)
    /\ UNCHANGED <<tree, boards, move_stack, frames, ret, done, scanned, call>>

\* line 249 alone: a click is handled whoever is to move
ClickAllowedAnyTurn == ~game.game_over

\* lines 249 and 251: a click is handled only in a running game with the human to move
ClickAllowed == ~game.game_over /\ Turn(Cur) # AI_COLOR

\* lines 248-320: pygame.MOUSEBUTTONDOWN. The squares are abstracted to what the code tests
\* of them: the selected square again, a square with a piece of the side to move or not,
\* a second square that completes a legal move or not
MouseDown ==
    /\ game.pc = "events"
    /\ IF ClickAllowed
       THEN \/ \* lines 259-262, 313-318: the same square again, or an unparsable move
               /\ game.sq_selected
               /\ game' = [game EXCEPT !.sq_selected = FALSE]
               /\ ev' = Event("click", 0, Ply, 0)
               /\ UNCHANGED <<boards, move_stack>>
            \/ \* lines 263-279: first click, on a piece of the side to move or not
               /\ ~game.sq_selected
               /\ \E own \in BOOLEAN : game' = [game EXCEPT !.sq_selected = own]
               /\ ev' = Event("click", 0, Ply, 0)
               /\ UNCHANGED <<boards, move_stack>>
            \/ \* lines 280-308: second click, a legal move
               /\ game.sq_selected
               /\ Len(move_stack) < MaxGame
               /\ \E move \in legal_moves(Cur) : \E child \in ChildBoards(move) :
                    /\ boards' = Append(boards, child)
                    /\ move_stack' = Append(move_stack, move)
                    /\ game' = [game EXCEPT
                                  !.game_over = is_game_over(child),
                                  !.sq_selected = FALSE,
                                  !.ai_thinking =
                                      IF ~is_game_over(child) /\ Turn(child) = AI_COLOR
                                      THEN TRUE ELSE game.ai_thinking]
               /\ ev' = Event("click", 0, Ply + 1, 0)
            \/ \* lines 309-312: second click, an illegal move
               /\ game.sq_selected
               /\ ev' = Event("click", 0, Ply, 0)
               /\ UNCHANGED <<boards, move_stack, game>>
       ELSE \* line 320
            /\ ev' = Event("click_ignored", 0, Ply, 0)
            /\ UNCHANGED <<boards, move_stack, game>>
    /\ UNCHANGED <<tree, frames, ret, done, scanned, call>>

\* lines 322-333: the r key
KeyR ==
    /\ game.pc = "events"
    /\ boards' = <<StartBoard>>
    /\ move_stack' = <<>>
    /\ game' = [game EXCEPT !.game_over = FALSE, !.sq_selected = FALSE,
                            !.ai_thinking = (Turn(StartBoard) = AI_COLOR)]
    /\ ev' = Event("reset", 0, 0, 0)
    /\ UNCHANGED <<tree, frames, ret, done, scanned, call>>

\* KeyZ without lines 340-341: one move is taken back
KeyZSinglePop ==
    /\ game.pc = "events"
    /\ IF fullmove_number(move_stack) > 1
       THEN LET pops == IF Turn(Cur) # AI_COLOR THEN 1 ELSE 0
            IN  IF pops > Len(move_stack)
                THEN /\ game' = [game EXCEPT !.pc = "crashed"]
                     /\ UNCHANGED <<boards, move_stack>>
                ELSE /\ boards' = PopN(boards, pops)
                     /\ move_stack' = PopN(move_stack, pops)
                     /\ game' = [game EXCEPT
                                   !.game_over = FALSE, !.sq_selected = FALSE,
                                   !.ai_thinking = (Turn(boards'[Len(boards')]) = AI_COLOR)]
       ELSE UNCHANGED <<boards, move_stack, game>>
    /\ ev' = Event("undo", 0, Ply, 0)
    /\ UNCHANGED <<tree, frames, ret, done, scanned, call>>

\* lines 334-352: the z key. board.pop() on a board with no move raises IndexError, which
\* nothing in main catches
KeyZ ==
    /\ game.pc = "events"
    /\ IF fullmove_number(move_stack) > 1
       THEN LET first == IF Turn(Cur) # AI_COLOR THEN 1 ELSE 0
                ms1 == PopN(move_stack, first)
                bs1 == PopN(boards, first)
                second == IF first > Len(move_stack) THEN 0
                          ELSE IF fullmove_number(ms1) > 1 /\ Turn(bs1[Len(bs1)]) = AI_COLOR
                          THEN 1 ELSE 0
                pops == first + second
            IN  IF pops > Len(move_stack)
                THEN /\ game' = [game EXCEPT !.pc = "crashed"]
                     /\ UNCHANGED <<boards, move_stack>>
                ELSE /\ boards' = PopN(boards, pops)
                     /\ move_stack' = PopN(move_stack, pops)
                     /\ game' = [game EXCEPT
                                   !.game_over = FALSE, !.sq_selected = FALSE,
                                   !.ai_thinking = (Turn(boards'[Len(boards')]) = AI_COLOR)]
       ELSE UNCHANGED <<boards, move_stack, game>>
    /\ ev' = Event("undo", 0, Ply, 0)
    /\ UNCHANGED <<tree, frames, ret, done, scanned, call>>

\* line 245: the events of this iteration have all been handled
EventsDone ==
    /\ game.pc = "events"
    /\ game' = [game EXCEPT !.pc = "ai"]
    /\ ev' = Event("events_done", 0, Ply, 0)
    /\ UNCHANGED <<tree, boards, move_stack, frames, ret, done, scanned, call>>

\* lines 356-358: the AI's turn starts, get_best_move(board, AI_DEPTH) is called
AiCall ==
    /\ game.pc = "ai"
    /\ ~game.game_over /\ game.ai_thinking
    /\ Len(move_stack) < MaxGame
    /\ UNCHANGED <<tree, boards, move_stack, ret, scanned>>
    /\ frames' = <<Frame("gbm", AI_DEPTH, NegInf, Inf, FALSE)>>
    /\ call' = Head(frames')
    /\ done' = FALSE
    /\ game' = [game EXCEPT !.pc = "search"]
    /\ ev' = Event("call", AI_DEPTH, Ply, 0)

\* lines 359-366: get_best_move has returned; its move is played, or the game is declared over
\* lines 244, 368-393: the board is drawn and the loop goes on if running
AiMove ==
    /\ game.pc = "search" /\ frames = <<>> /\ done
    /\ LET ai_move == ret
           pc == IF game.running THEN "events" ELSE "exited"
       IN  IF ai_move # None
           THEN \E child \in ChildBoards(ai_move) :
                  /\ boards' = Append(boards, child)
                  /\ move_stack' = Append(move_stack, ai_move)
                  /\ game' = [game EXCEPT !.game_over = is_game_over(child),
                                          !.ai_thinking = FALSE, !.pc = pc]
                  /\ ev' = Event("ai_move", 0, Ply + 1, 0)
           ELSE /\ game' = [game EXCEPT !.game_over = TRUE,
                                        !.ai_thinking = FALSE, !.pc = pc]
                /\ ev' = Event("ai_none", 0, Ply, 0)
                /\ UNCHANGED <<boards, move_stack>>
    /\ UNCHANGED <<tree, frames, ret, done, scanned, call>>

\* line 356 false: no AI turn in this iteration; lines 244, 368-393 as in AiMove
AiSkip ==
    /\ game.pc = "ai"
    /\ ~(~game.game_over /\ game.ai_thinking)
    /\ game' = [game EXCEPT !.pc = IF game.running THEN "events" ELSE "exited"]
    /\ ev' = Event("skip", 0, Ply, 0)
    /\ UNCHANGED <<tree, boards, move_stack, frames, ret, done, scanned, call>>

NextLoop ==
    \/ Quit \/ MouseDown \/ KeyR \/ KeyZ \/ EventsDone
    \/ AiCall \/ AiMove \/ AiSkip
    \/ MabLeaf \/ MabEnter \/ MabPush \/ MabFold \/ MabReturn
    \/ GbmStart \/ GbmPush \/ GbmFold \/ GbmReturn

SpecLoop == InitLoop /\ [][NextLoop]_vars

---------------------------------------------------------------------------
(* Claims *)

RECURSIVE Minimax(_, _, _)
\* the unpruned minimax score of game tree t searched to depth "depth", the root maximizing
\* or not, the roles alternating by ply
Minimax(t, depth, is_maximizing) ==
    IF depth = 0 \/ is_game_over(t.board) THEN evaluate_board(t.board)
    ELSE LET scores == {Minimax(t.kids[i], depth - 1, ~is_maximizing) : i \in DOMAIN t.kids}
         IN  IF is_maximizing
             THEN CHOOSE v \in scores \cup {NegInf} : \A w \in scores : v >= w
             ELSE CHOOSE v \in scores \cup {Inf} : \A w \in scores : v <= w

\* C1: on every game tree, for every depth and either role, minimax_alpha_beta called with
\* the window (-inf, +inf) returns the score of the unpruned minimax of the same tree, depth
\* and roles
C1_AlphaBetaIsMinimax ==
    (done /\ tree # <<>> /\ call.fn = "mab")
        => ret = Minimax(tree[1], call.depth, call.is_maximizing)

\* C1's case: the search has returned on a tree where a cut-off happens below the root: the
\* root maximizes, its first move scores a finite v, and its second move leads to a node whose
\* first reply already scores no more than v while its second reply scores more
C1_Witness ==
    /\ done /\ tree # <<>> /\ call.fn = "mab"
    /\ call.depth = 2 /\ call.is_maximizing
    /\ Len(tree[1].kids) = 2
    /\ LET v == Minimax(tree[1].kids[1], 1, FALSE)
           second == tree[1].kids[2]
       IN  /\ NegInf < v /\ v < Inf
           /\ ~is_game_over(second.board) /\ Len(second.kids) = 2
           /\ evaluate_board(second.kids[1].board) <= v
           /\ evaluate_board(second.kids[2].board) > v
           /\ ret = v

\* the material sum written out: (White count - Black count) x weight, kind by kind
Material(b) ==
    (b.white["PAWN"] - b.black["PAWN"]) * 1
    + (b.white["KNIGHT"] - b.black["KNIGHT"]) * 3
    + (b.white["BISHOP"] - b.black["BISHOP"]) * 3
    + (b.white["ROOK"] - b.black["ROOK"]) * 5
    + (b.white["QUEEN"] - b.black["QUEEN"]) * 9
    + (b.white["KING"] - b.black["KING"]) * 0

\* C9: evaluate_board returns +inf for a checkmate with Black to move, -inf for a checkmate
\* with White to move, 0 for a stalemate or insufficient material, and otherwise the material
\* sum with weights 1, 3, 3, 5, 9, 0; the board is left as it was
C9_EvaluateBoard ==
    (done /\ call.fn = "evaluate_board") =>
        /\ boards = <<call.entry_board>> /\ move_stack = <<>>
        /\ ret = CASE Cur.ended = "checkmate" /\ Cur.turn = BLACK -> Inf
                   [] Cur.ended = "checkmate" /\ Cur.turn = WHITE -> NegInf
                   [] Cur.ended = "stalemate" \/ Cur.insufficient -> 0
                   [] OTHER -> Material(Cur)

\* C9's case: evaluate_board has scored a checkmate of White on a board where Black is also
\* behind in material and the seventy-five-move rule applies
C9_Witness ==
    /\ done /\ call.fn = "evaluate_board"
    /\ Cur.ended = "checkmate" /\ Cur.turn = WHITE /\ Cur.seventyfive
    /\ Material(Cur) > 0
    /\ ret = NegInf

\* the frames of minimax_alpha_beta on the call stack
MabFrames == {i \in 1 .. Len(frames) : frames[i].fn = "mab"}

\* C2: in every call to minimax_alpha_beta made during get_best_move (depth >= 1),
\* is_maximizing is true exactly when White is to move in the position the call searches
C2_RoleFollowsTurn ==
    (call.fn = "gbm" /\ call.depth >= 1) =>
        \A i \in MabFrames :
            frames[i].is_maximizing <=> (Turn(frames[i].entry_board) = WHITE)

\* C3: when a call returns, the move stack and the position are those the call was entered
\* with, and a call pushes a move only from the position it was entered with (the move pushed
\* before has been popped)
C3_BoardRestored ==
    [][frames # <<>> =>
          /\ Len(frames') < Len(frames) =>
                /\ move_stack' = Top.entry_stack
                /\ boards'[Len(boards')] = Top.entry_board
                /\ Len(boards') = Len(move_stack') + 1
          /\ Len(frames') > Len(frames) =>
                /\ move_stack = Top.entry_stack
                /\ Cur = Top.entry_board]_vars

\* C3's case: a call of minimax_alpha_beta has returned through the cut-off with a move of
\* its loop untaken, to a calling minimax_alpha_beta that has its own move still pushed
C3_Witness ==
    /\ frames # <<>> /\ Top.fn = "mab" /\ Top.pc = "called"
    /\ ev.op = "cutoff" /\ ev.left > 0
    /\ move_stack = Append(Top.entry_stack, Top.moves[Top.idx])
    /\ Cur # Top.entry_board

\* C4: get_best_move (depth >= 1) returns None exactly when the position has no legal move,
\* and otherwise one of the legal moves
C4_NoneIffNoLegalMove ==
    (done /\ call.fn = "gbm" /\ call.depth >= 1) =>
        /\ ret = None <=> legal_moves(call.entry_board) = {}
        /\ legal_moves(call.entry_board) # {} => ret \in legal_moves(call.entry_board)

\* C5: on a position with exactly one legal move, get_best_move (depth >= 1) returns it
C5_OnlyMoveReturned ==
    (done /\ call.fn = "gbm" /\ call.depth >= 1 /\ call.entry_board.nmoves = 1) =>
        ret = 1

\* the extreme score for the side to move in b: +inf for White, -inf for Black
Extreme(b) == IF Turn(b) = WHITE THEN Inf ELSE NegInf

\* C6: if a legal move leads to a checkmate, get_best_move (depth >= 1) returns a move that
\* the search scored with the extreme score for the mover, whatever the order of the scan
C6_MateInOne ==
    (/\ done /\ call.fn = "gbm" /\ call.depth >= 1
     /\ \E i \in DOMAIN scanned : scanned[i].checkmate) =>
        \E i \in DOMAIN scanned :
            /\ scanned[i].move = ret
            /\ scanned[i].eval = Extreme(call.entry_board)

\* C6's case: get_best_move has returned the mating move, scanned after a move that does not
\* mate
C6_Witness ==
    /\ done /\ call.fn = "gbm" /\ call.depth >= 1
    /\ Len(scanned) = 2
    /\ ~scanned[1].checkmate /\ scanned[2].checkmate
    /\ ret = scanned[2].move
    /\ scanned[2].eval = Extreme(call.entry_board)

\* C7: for every depth >= 0 passed to get_best_move, every call to minimax_alpha_beta has
\* depth >= 0 and the board is never more than depth plies below the root
C7_DepthRespected ==
    call.fn = "gbm" =>
        /\ \A i \in MabFrames : frames[i].depth >= 0
        /\ Ply <= call.depth

\* C8: minimax_alpha_beta entered with depth 0, or on a position reported as game over,
\* returns evaluate_board of the position as its next step, whatever alpha, beta and the
\* role, and pushes no move
C8_LeafIsEvaluation ==
    [][(/\ frames # <<>> /\ Top.fn = "mab" /\ Top.pc = "start"
        /\ Top.depth = 0 \/ is_game_over(Cur)) =>
          /\ frames' = Tail(frames)
          /\ ret' = evaluate_board(Cur)
          /\ boards' = boards /\ move_stack' = move_stack]_vars

\* C8's case: a call with depth > 0 and a narrowed window has returned the score of a
\* checkmate without expanding it
C8_Witness ==
    /\ ev.op = "evaluate" /\ ev.depth > 0
    /\ is_checkmate(Cur)
    /\ ret = evaluate_board(Cur)
    /\ frames # <<>> /\ Top.fn = "mab" /\ Top.alpha > NegInf
    /\ move_stack = Append(Top.entry_stack, Top.moves[Top.idx])

\* C10: minimax_alpha_beta called with depth >= 1 on a position not reported as game over
\* that has no legal move returns evaluate_board of the position
C10_NoMoveIsEvaluation ==
    (/\ done /\ call.fn = "mab" /\ call.depth >= 1
     /\ ~is_game_over(call.entry_board) /\ legal_moves(call.entry_board) = {}) =>
        ret = evaluate_board(call.entry_board)

\* the colour-mirrored counterpart of board b: every piece changes colour and the other side
\* is to move; what the rules engine says of the end of the game is the same
Mirror(b) == [b EXCEPT !.turn = ~b.turn, !.white = b.black, !.black = b.white]

\* C11: evaluate_board of the colour-mirrored board is the negation of evaluate_board of the
\* board, the checkmate scores and the draw score included
C11_MirrorNegates ==
    (done /\ call.fn = "evaluate_board") =>
        /\ Mirror(Cur) \in EvalBoards
        /\ evaluate_board(Mirror(Cur)) = 0 - ret

\* C11's case: evaluate_board has scored a board in play where White is ahead, and scores the
\* mirror, where Black is ahead by as much, with the opposite sign
C11_Witness ==
    /\ done /\ call.fn = "evaluate_board"
    /\ ~is_game_over(Cur) /\ ret > 0
    /\ Cur.black # KingOnly /\ Cur.white # Cur.black
    /\ evaluate_board(Mirror(Cur)) = 0 - ret

\* frame k of the call stack counted from the outermost call
FrameAt(fs, k) == fs[Len(fs) - k + 1]

\* C12: within a frame of minimax_alpha_beta alpha never decreases and beta never increases;
\* a frame called by minimax_alpha_beta is entered with a window inside the window its caller
\* was entered with; a frame called by get_best_move is entered with (-inf, +inf)
C12_WindowNarrows ==
    [][/\ \A k \in 1 .. Len(frames) :
            (k <= Len(frames') /\ FrameAt(frames, k).fn = "mab") =>
                /\ FrameAt(frames', k).alpha >= FrameAt(frames, k).alpha
                /\ FrameAt(frames', k).beta <= FrameAt(frames, k).beta
       /\ Len(frames') > Len(frames) =>
            LET child == Head(frames')
                parent == Top
            IN  /\ child.alpha = child.entry_alpha /\ child.beta = child.entry_beta
                /\ parent.fn = "mab" =>
                      /\ parent.entry_alpha <= child.alpha
                      /\ child.beta <= parent.entry_beta
                /\ parent.fn = "gbm" => child.alpha = NegInf /\ child.beta = Inf]_vars

\* C12's case: a frame has just been entered with a window strictly inside the one its caller
\* was entered with, the caller having raised alpha from -inf to a finite score
C12_Witness ==
    /\ Len(frames) >= 2 /\ ev.op = "push"
    /\ Top.fn = "mab" /\ Top.pc = "start" /\ frames[2].fn = "mab"
    /\ frames[2].entry_alpha = NegInf
    /\ NegInf < Top.alpha /\ Top.alpha < Top.beta /\ Top.beta < Inf

\* C13: a frame of minimax_alpha_beta that has folded a child's score in and has
\* beta <= alpha pushes no further move: its next step returns the best value found so far
C13_CutoffReturns ==
    [][(/\ frames # <<>> /\ Top.fn = "mab" /\ Top.pc \notin {"start", "called"}
        /\ Top.idx > 0 /\ Top.beta <= Top.alpha) =>
          /\ frames' = Tail(frames)
          /\ ret' = Top.max_eval
          /\ boards' = boards /\ move_stack' = move_stack]_vars

\* C13's case: a frame entered with alpha < beta met beta = alpha after its first child and
\* has returned with a move unsearched
C13_Witness ==
    /\ ev.op = "cutoff" /\ ev.left > 0
    /\ frames # <<>> /\ Top.fn = "mab" /\ Top.pc = "called"
    /\ Top.alpha < Top.beta
    /\ ret = (IF Top.is_maximizing THEN Top.alpha ELSE Top.beta)

\* C14: in the root scan of get_best_move a tracked move is replaced only by a move with a
\* strictly better score for the mover; a move with an equal score does not replace it
C14_TiesKeepFirst ==
    [][(/\ frames # <<>> /\ Top.fn = "gbm" /\ Top.pc = "called"
        /\ Top.best_move # None /\ Len(frames') = Len(frames)) =>
          LET now == Head(frames')
          IN  /\ now.best_move # Top.best_move =>
                    /\ now.best_move = Top.moves[Top.idx]
                    /\ IF Turn(call.entry_board) = WHITE THEN ret > Top.max_eval
                                                         ELSE ret < Top.max_eval
              /\ ret = Top.max_eval =>
                    now.best_move = Top.best_move /\ now.max_eval = Top.max_eval]_vars

\* C14's case: get_best_move has scanned two moves with the same score and returned the first
C14_Witness ==
    /\ done /\ call.fn = "gbm" /\ Len(scanned) = 2
    /\ scanned[1].eval = scanned[2].eval
    /\ scanned[1].took /\ ~scanned[2].took
    /\ ret = scanned[1].move

\* C15: in the game loop, whenever game_over is true the board reports the game as over
C15_GameOverMeansBoardOver ==
    (game # NoGame /\ game.game_over) => is_game_over(Cur)

\* C16: in the game loop get_best_move is called only with the AI's colour to move and
\* game_over false, and a click with the AI to move or the game over leaves the board alone
C16_AiOnlyOnItsTurn ==
    [][/\ (game.pc = "ai" /\ game'.pc = "search") =>
             Turn(Cur) = AI_COLOR /\ ~game.game_over
       /\ (game.pc = "events" /\ ev'.op \in {"click", "click_ignored"}
           /\ (Turn(Cur) = AI_COLOR \/ game.game_over)) =>
             boards' = boards /\ move_stack' = move_stack]_vars

\* C16's case: the human has moved and clicked again before the AI's turn; the click was
\* ignored and get_best_move is about to be called with the AI's colour to move
C16_Witness ==
    /\ game.pc = "events" /\ ev.op = "click_ignored"
    /\ Len(move_stack) = 2 /\ Turn(Cur) = AI_COLOR
    /\ ~game.game_over /\ game.ai_thinking

\* C17: in the game loop the z key never pops a board with no move, and when
\* fullmove_number > 1 it leaves the human to move, game_over false and ai_thinking false
C17_UndoLeavesHumanToMove ==
    [][(game.pc = "events" /\ ev'.op = "undo") =>
          /\ game'.pc # "crashed"
          /\ fullmove_number(move_stack) > 1 =>
                /\ Len(move_stack') < Len(move_stack)
                /\ Turn(boards'[Len(boards')]) # AI_COLOR
                /\ ~game'.game_over /\ ~game'.ai_thinking]_vars

\* C17's case: the z key has taken back the AI's move and the human's move before it
C17_Witness ==
    /\ game.pc = "events" /\ ev.op = "undo"
    /\ Len(move_stack) = 1 /\ Turn(Cur) # AI_COLOR
    /\ ~game.game_over /\ ~game.ai_thinking

=============================================================================
